---- MODULE Spec2Model ----
(***************************************************************************)
(* shrink-ray: the batch driver (main.rs), the two process supervisors     *)
(* (Context::run in context.rs, execute_command in main.rs), the image and *)
(* video conversions that call the supervisor, and the replace             *)
(* transaction, as one state machine.  The program is single-threaded and  *)
(* cooperative: one control location (pc) plus the environment (the child  *)
(* processes, the operator's interrupt, the file system's answers).        *)
(***************************************************************************)
EXTENDS Integers, Sequences, FiniteSets, TLC

\* ------------------------------------------------------------------ bounds
\* writes and closes a child performs on its streams
MaxWrites == 2
\* timer ticks the model follows
MaxTicks == 1
\* interrupts the operator sends
MaxSignals == 2
\* reads the model follows once a stream has reached end-of-file
MaxEof == 1
\* interrupts the operator sends during a batch
BatchSignals == 1
\* random suffixes temp::file can draw
NSuffix == 2
\* inputs of the batch
NInputs == 2
\* pieces a text handed to a function under examination is made of
MaxPieces == 3
\* the largest number of a version
MaxNum == 10
\* bits of the integers that stand for u64
Bits == 3
\* random suffixes one call of temp::file draws before the model stops following it
MaxDraws == 2
\* deletions of a failed job's files that the file system refuses during a batch
MaxRefused == 1
\* calls made on one Statistics
MaxCalls == 3

\* ------------------------------------------------------------------- paths
\* A path is [stem, rnd, tail]: "<stem>" or "<stem>-<rnd>", followed by tail.
\* rnd = 0 is no random part.  The tails are the strings the program builds.
NoPath == [stem |-> "", rnd |-> 0, tail |-> ""]

Path(stem, rnd, tail) == [stem |-> stem, rnd |-> rnd, tail |-> tail]

\* Path::extension: the text after the last dot of the file name, if any
extension(p) ==
    CASE p.tail = ".png"  -> "png"
      [] p.tail = ".jpg"  -> "jpg"
      [] p.tail = ".mp4"  -> "mp4"
      [] p.tail = ".webm" -> "webm"
      [] p.tail = "-0.log" -> "log"
      [] OTHER -> "none"

\* Path::with_extension of a path whose random part is empty
with_extension(p, e) ==
    [p EXCEPT !.tail = CASE e = "png"  -> ".png"
                         [] e = "jpg"  -> ".jpg"
                         [] e = "mp4"  -> ".mp4"
                         [] e = "webm" -> ".webm"
                         [] OTHER -> ""]

\* temp.rs: the candidate built from the base's stem, a random suffix and the
\* given suffix, pushed as it is (no dot is added)
candidate(path, r, suffix) == Path(path.stem, r, suffix)

\* the sequences of random suffixes the generator can hand to one call
Draws == [1..MaxDraws -> 1..NSuffix]

\* a loop that returns its first candidate without looking
file_loop_unchecked(path, suffix, existing, draws) ==
    IF draws = <<>> THEN NoPath ELSE candidate(path, Head(draws), suffix)

\* temp.rs 14-30: the loop of temp::file, given the suffixes drawn: the first
\* candidate that does not exist; NoPath while every candidate so far exists
\* and the loop goes on
RECURSIVE file_loop(_, _, _, _)
file_loop(path, suffix, existing, draws) ==
    IF draws = <<>> THEN NoPath
    ELSE IF candidate(path, Head(draws), suffix) \in existing
            THEN file_loop(path, suffix, existing, Tail(draws))
            ELSE candidate(path, Head(draws), suffix)

\* temp.rs 9-31: the paths temp::file can return
file(path, suffix, existing) ==
    { file_loop(path, suffix, existing, d) : d \in Draws } \ {NoPath}

\* video.rs: the pass-log file ffmpeg writes for a given -passlogfile
full_log_file_name(p) == [p EXCEPT !.tail = "-0.log"]

\* ------------------------------------------------------------------- state
VARIABLES
    inputs,     \* args.inputs
    no_grow,    \* args.no_grow
    args_output, \* args.output: the output options
    idx,        \* position of the for loop of main
    pc,         \* control location
    caller,     \* the call site the current invocation serves
    output,     \* the job's output path
    log_file,   \* video: the -passlogfile argument
    temp,       \* replace: the temporary name of the original
    fs,         \* the file system: existing path -> content
    exit_code,  \* main's ExitCode
    error,      \* the error the job ended with ("none": no error)
    children,   \* every child spawned so far, the current one last
    cancel,     \* supervisor: cancel requested
    progress,   \* supervisor: animation counter
    buf,        \* supervisor: the line buffers stderr, stdout
    pipe,       \* bytes written by the child and not yet read, per stream
    written,    \* complete lines the child wrote, per stream
    open,       \* streams on which the child has an unfinished line
    closed,     \* streams whose write end is closed
    sink,       \* annotations forwarded to the terminal, in order, per stream
    line,       \* the status line: "none", "shown", "output" (overwritten), "cleared"
    result,     \* what the invocation returned
    observed,   \* the child's exit was observed (wait returned a status)
    errno,      \* supervisor: what the last kill answered ("none": no kill yet)
    arg,        \* the text handed to the function under examination
    ret,        \* what that function returned ("none": not called yet)
    budget      \* what the environment may still do: interrupts, ticks, lines, ...

jobVars == <<caller, output, log_file, temp>>
\* what no step of a batch changes
cfgVars == <<inputs, no_grow, args_output, arg, ret>>
endVars == <<idx, exit_code, error>>
supVars == <<cancel, progress, buf, sink, line, result, observed, errno>>
chlVars == <<children, pipe, written, open, closed>>
vars == <<pc, fs, cfgVars, jobVars, endVars, supVars, chlVars, budget>>

Streams == {"stderr", "stdout"}

\* what each supervisor captures: context.rs pipes both streams, main.rs's
\* execute_tool sends stdout to null
RunCallers == {"image", "video1", "video2"}

Captured(c) == IF c \in RunCallers THEN Streams ELSE {"stderr"}

Statuses == {"success", "failure", "signal"}

NoResult == [kind |-> "none", status |-> "none", site |-> "none"]

\* the function under examination was not called yet
NoRet == [fn |-> "none"]

Ok(status) == [kind |-> "Ok", status |-> status, site |-> "wait"]

Err(kind, site) == [kind |-> kind, status |-> "none", site |-> site]

\* the current child
cur == Len(children)

Alive == { i \in 1..Len(children) : children[i].state = "running" }

\* ------------------------------------------------------------ file system
exists(p) == p \in DOMAIN fs

put(f, p, c) == [q \in DOMAIN f \cup {p} |-> IF q = p THEN c ELSE f[q]]

remove(f, p) == [q \in DOMAIN f \ {p} |-> f[q]]

\* fs::rename: the source disappears, the destination is replaced
rename(f, from, to) == put(remove(f, from), to, f[from])

\* ------------------------------------------------------- the child process
\* What a spawned child is: the tool's process, with the file it writes.
Child(target, content) ==
    [state |-> "running", status |-> "none", target |-> target, content |-> content]

\* one event of the environment is spent
spend(what) == budget' = [budget EXCEPT ![what] = @ - 1]

\* the child writes bytes to a captured stream: the rest of a line with its
\* newline (nl), or the start of a line without it
child_write(s, nl) ==
    /\ pc = "loop"
    /\ children[cur].state = "running"
    /\ s \in Captured(caller) \ closed
    /\ budget.writes > 0
    /\ nl \/ s \notin open
    /\ spend("writes")
    /\ pipe' = [pipe EXCEPT ![s] = Append(@, [line |-> written[s] + 1, nl |-> nl])]
    /\ written' = IF nl THEN [written EXCEPT ![s] = @ + 1] ELSE written
    /\ open' = IF nl THEN open \ {s} ELSE open \cup {s}
    /\ UNCHANGED <<pc, fs, cfgVars, jobVars, endVars, supVars, children, closed>>

\* the child closes a stream while it keeps running
child_close(s) ==
    /\ pc = "loop"
    /\ children[cur].state = "running"
    /\ s \in Captured(caller) \ closed
    /\ budget.writes > 0
    /\ spend("writes")
    /\ closed' = closed \cup {s}
    /\ UNCHANGED <<pc, fs, cfgVars, jobVars, endVars, supVars, children, pipe, written,
                   open>>

\* a running child starts writing its file
child_create(i) ==
    /\ children[i].state = "running"
    /\ children[i].target # NoPath
    /\ IF exists(children[i].target) THEN fs[children[i].target] # "part" ELSE TRUE
    /\ fs' = put(fs, children[i].target, "part")
    /\ UNCHANGED <<pc, cfgVars, jobVars, endVars, supVars, chlVars, budget>>

\* what a finished product is on disk: a pass log, or a converted file whose
\* size is smaller than, equal to or larger than the size of the input
Products(content) ==
    IF content = "conv" THEN {"smaller", "equal", "larger"} ELSE {content}

\* a running child exits, of its own accord or on a signal: a successful run
\* leaves its product, its streams reach end-of-file
child_exit(i, status) ==
    /\ children[i].state = "running"
    /\ children' = [children EXCEPT ![i].state = "exited", ![i].status = status]
    /\ IF status = "success" /\ children[i].target # NoPath
          THEN \E product \in Products(children[i].content) :
                  fs' = put(fs, children[i].target, product)
          ELSE fs' = fs
    /\ closed' = IF i = cur /\ pc = "loop" THEN Streams ELSE closed
    /\ UNCHANGED <<pc, cfgVars, jobVars, endVars, supVars, pipe, written, open, budget>>

\* ------------------------------------------------- Context::run (context.rs)
\* the state of a fresh invocation: context.rs 83-91, main.rs 301-314
Fresh ==
    /\ cancel' = FALSE
    /\ progress' = 0
    /\ buf' = [s \in Streams |-> <<>>]
    /\ pipe' = [s \in Streams |-> <<>>]
    /\ written' = [s \in Streams |-> 0]
    /\ open' = {}
    /\ closed' = {}
    /\ sink' = [s \in Streams |-> <<>>]
    /\ observed' = FALSE
    /\ errno' = "none"

\* the file the child of a call site writes
Target(c) ==
    IF c = "video1" THEN full_log_file_name(log_file) ELSE output

Content(c) == IF c = "video1" THEN "log" ELSE "conv"

\* Command::spawn: the child runs, or the spawn fails
spawn ==
    \/ /\ children' = Append(children, Child(Target(caller), Content(caller)))
       /\ line' = "shown"
       /\ result' = NoResult
       /\ pc' = "loop"
    \/ /\ children' = children
       /\ line' = line
       /\ result' = Err("Io", "spawn")
       /\ pc' = "returned"

\* context.rs 74-94: spawn the child, start the status line
run_spawn ==
    /\ pc = "call"
    /\ caller \in RunCallers
    /\ Fresh
    /\ spawn
    /\ UNCHANGED <<fs, cfgVars, jobVars, endVars, budget>>

\* a supervisor that forgets the cancel flag when the child has exited
Outcome_status_only(c, status) == Ok(status)

\* context.rs 102-106: the outcome once the child's status is known
Outcome(c, status) ==
    IF c THEN Err("Cancelled", "wait") ELSE Ok(status)

\* a supervisor that clears the status line before it looks at wait's answer
wait_clearing_first(outcome) ==
    /\ line' = "cleared"
    /\ \/ /\ children[cur].state = "exited"
          /\ children' = [children EXCEPT ![cur].state = "reaped"]
          /\ observed' = TRUE
          /\ result' = outcome
       \/ /\ result' = Err("Io", "wait")
          /\ UNCHANGED <<children, observed>>
    /\ pc' = "returned"

\* context.rs 98-101, main.rs 318-322: child.wait() completes with the status
\* of a child that has exited, or with an error
wait(outcome) ==
    /\ \/ /\ children[cur].state = "exited"
          /\ children' = [children EXCEPT ![cur].state = "reaped"]
          /\ observed' = TRUE
          /\ line' = "cleared"
          /\ result' = outcome
       \/ /\ result' = Err("Io", "wait")
          /\ UNCHANGED <<children, observed, line>>
    /\ pc' = "returned"

\* context.rs 98-107: child.wait() completes
run_wait ==
    /\ pc = "loop"
    /\ caller \in RunCallers
    /\ wait(Outcome(cancel, children[cur].status))
    /\ UNCHANGED <<fs, cfgVars, jobVars, endVars, cancel, progress, buf, sink,
                   errno, pipe, written, open, closed, budget>>

\* context.rs 109-112: the timer ticks
run_tick ==
    /\ pc = "loop"
    /\ caller \in RunCallers
    /\ budget.ticks > 0
    /\ spend("ticks")
    /\ progress' = progress + 1
    /\ line' = "shown"
    /\ UNCHANGED <<pc, fs, cfgVars, jobVars, endVars, chlVars, cancel, buf, sink, result,
                   observed, errno>>

\* terminal.rs 152-162: an annotation: the bytes of the buffer
Annotation(bytes) == bytes

\* a supervisor that leaves the buffer as it is after forwarding it
Cleared_never(bytes) == bytes

\* context.rs 118, 125: the buffer after a line was forwarded
Cleared(bytes) == <<>>

\* context.rs 114-126: read_until on a captured stream.  The bytes before a
\* newline are appended to the buffer and the read stays pending (read_until
\* keeps them across a select that another source wins); a newline or
\* end-of-file completes it, the buffer is forwarded and cleared; an error
\* returns from the invocation.  What is on the status line afterwards is the
\* caller's: Context::run redraws it (terminal.rs 152-162), execute_command
\* leaves the forwarded bytes there.
read(s, after) ==
    \/ /\ pipe[s] # <<>>
       /\ ~Head(pipe[s]).nl
       /\ buf' = [buf EXCEPT ![s] = Append(@, Head(pipe[s]).line)]
       /\ pipe' = [pipe EXCEPT ![s] = Tail(@)]
       /\ UNCHANGED <<pc, sink, line, result, budget>>
    \/ /\ pipe[s] # <<>>
       /\ Head(pipe[s]).nl
       /\ sink' = [sink EXCEPT ![s] =
                     Append(@, Annotation(Append(buf[s], Head(pipe[s]).line)))]
       /\ buf' = [buf EXCEPT ![s] = Cleared(@)]
       /\ pipe' = [pipe EXCEPT ![s] = Tail(@)]
       /\ line' = after
       /\ UNCHANGED <<pc, result, budget>>
    \/ /\ pipe[s] = <<>>
       /\ s \in closed
       /\ budget.eofs > 0
       /\ spend("eofs")
       /\ sink' = [sink EXCEPT ![s] = Append(@, Annotation(buf[s]))]
       /\ buf' = [buf EXCEPT ![s] = Cleared(@)]
       /\ line' = after
       /\ UNCHANGED <<pc, pipe, result>>
    \/ /\ result' = Err("Io", "read")
       /\ pc' = "returned"
       /\ UNCHANGED <<buf, pipe, sink, line, budget>>

\* context.rs 114-119: a read of stderr completes
run_stderr ==
    /\ pc = "loop"
    /\ caller \in RunCallers
    /\ read("stderr", "shown")
    /\ UNCHANGED <<fs, cfgVars, jobVars, endVars, children, written, open, closed,
                   cancel, progress, observed, errno>>

\* context.rs 121-126: a read of stdout completes
run_stdout ==
    /\ pc = "loop"
    /\ caller \in RunCallers
    /\ read("stdout", "shown")
    /\ UNCHANGED <<fs, cfgVars, jobVars, endVars, children, written, open, closed,
                   cancel, progress, observed, errno>>

\* what kill(pid, SIGINT) can answer: the signal was sent, no such process
\* (only once the child is gone), or another errno
Kill(state) == {"sent", "EPERM"} \cup (IF state = "running" THEN {} ELSE {"ESRCH"})

\* a supervisor that treats every answer of kill like "no such process"
Aborts_never(e) == FALSE

\* context.rs 132-141: whether the answer of kill ends the invocation
Aborts(e) == e \notin {"sent", "ESRCH"}

\* context.rs 128-143, main.rs 345-361: the interrupt arrives.  child.id() is
\* Some until wait has completed, which leaves the loop.
ctrl_c ==
    /\ pc = "loop"
    /\ budget.signals > 0
    /\ spend("signals")
    /\ IF children[cur].state = "reaped"
          THEN UNCHANGED <<pc, cancel, line, result, errno>>
          ELSE /\ cancel' = TRUE
               /\ errno' \in Kill(children[cur].state)
               /\ IF Aborts(errno')
                     THEN /\ line' = "cleared"
                          /\ result' = Err("Nix", errno')
                          /\ pc' = "returned"
                     ELSE UNCHANGED <<pc, line, result>>
    /\ UNCHANGED <<fs, cfgVars, jobVars, endVars, chlVars, progress, buf, sink, observed>>

\* context.rs 128-143: the interrupt arrives
run_ctrl_c ==
    /\ caller \in RunCallers
    /\ ctrl_c

\* -------------------------------------------- execute_command (main.rs)
\* main.rs 295: the frames of the animation
AnimationLen == 10

\* main.rs 297-314: spawn the child, write the status line
execute_command_spawn ==
    /\ pc = "call"
    /\ caller = "run_tool"
    /\ Fresh
    /\ spawn
    /\ UNCHANGED <<fs, cfgVars, jobVars, endVars, budget>>

\* main.rs 318-324: child.wait() completes; the status is returned as it is
execute_command_wait ==
    /\ pc = "loop"
    /\ caller = "run_tool"
    /\ wait(Ok(children[cur].status))
    /\ UNCHANGED <<fs, cfgVars, jobVars, endVars, cancel, progress, buf, sink,
                   errno, pipe, written, open, closed, budget>>

\* main.rs 326-335: the timer fires
execute_command_tick ==
    /\ pc = "loop"
    /\ caller = "run_tool"
    /\ budget.ticks > 0
    /\ spend("ticks")
    /\ progress' = (progress + 1) % AnimationLen
    /\ line' = "shown"
    /\ UNCHANGED <<pc, fs, cfgVars, jobVars, endVars, chlVars, cancel, buf, sink, result,
                   observed, errno>>

\* main.rs 337-343: read_until on stderr
execute_command_stderr ==
    /\ pc = "loop"
    /\ caller = "run_tool"
    /\ read("stderr", "output")
    /\ UNCHANGED <<fs, cfgVars, jobVars, endVars, children, written, open, closed,
                   cancel, progress, observed, errno>>

\* main.rs 345-361: the interrupt arrives
execute_command_ctrl_c ==
    /\ caller = "run_tool"
    /\ ctrl_c

\* ----------------------------------------------------------------- texts
\* A text is the sequence of its bytes, a byte a one-character string; the
\* two bytes of a character outside ASCII are named by their value.
Continuation == {"0xA9"}

Digits == {"0", "1", "2", "3", "4", "5", "6", "7", "8", "9"}

Upper == <<"A", "C", "E", "H", "I", "K", "M", "N", "O", "R", "S", "T", "Y">>

Lower == <<"a", "c", "e", "h", "i", "k", "m", "n", "o", "r", "s", "t", "y">>

Letters == { Upper[i] : i \in 1..Len(Upper) } \cup { Lower[i] : i \in 1..Len(Lower) } \cup
           {"b", "d", "f", "g", "j", "l", "p", "u", "v", "x"}

\* u8::to_ascii_lowercase
to_ascii_lowercase(b) ==
    IF \E i \in 1..Len(Upper) : Upper[i] = b
       THEN Lower[CHOOSE i \in 1..Len(Upper) : Upper[i] = b]
       ELSE b

\* str::eq_ignore_ascii_case
eq_ignore_ascii_case(a, b) ==
    /\ Len(a) = Len(b)
    /\ \A i \in 1..Len(a) : to_ascii_lowercase(a[i]) = to_ascii_lowercase(b[i])

\* str::is_char_boundary: the byte after the first n is not inside a character
is_char_boundary(t, n) ==
    n = 0 \/ n = Len(t) \/ (n < Len(t) /\ t[n + 1] \notin Continuation)

\* str::starts_with
starts_with(t, pat) ==
    Len(t) >= Len(pat) /\ SubSeq(t, 1, Len(pat)) = pat

\* str::find: the position of the first occurrence of pat, 0 if there is none
find(t, pat) ==
    LET hits == { i \in 1..Len(t) : starts_with(SubSeq(t, i, Len(t)), pat) }
    IN  IF hits = {} THEN 0 ELSE CHOOSE i \in hits : \A j \in hits : i <= j

\* str::lines().next() of a text that is not empty: up to the first newline
first_line(t) ==
    LET n == find(t, <<"\n">>)
    IN  IF n = 0 THEN t ELSE SubSeq(t, 1, n - 1)

RECURSIVE trim_start(_)
trim_start(t) ==
    IF t # <<>> /\ Head(t) \in {" ", "\n"} THEN trim_start(Tail(t)) ELSE t

RECURSIVE trim_end(_)
trim_end(t) ==
    IF t # <<>> /\ t[Len(t)] \in {" ", "\n"}
       THEN trim_end(SubSeq(t, 1, Len(t) - 1))
       ELSE t

\* str::trim
trim(t) == trim_end(trim_start(t))

\* str::split('.'): the pieces between the dots
RECURSIVE split(_, _)
split(t, sep) ==
    LET n == find(t, <<sep>>)
    IN  IF n = 0 THEN <<t>> ELSE <<SubSeq(t, 1, n - 1)>> \o split(SubSeq(t, n + 1, Len(t)), sep)

\* ---------------------------------------------------- the marker (comment.rs)
\* comment.rs 26
PREFIX == <<"s", "h", "r", "i", "n", "k", "-", "r", "a", "y", "/">>

\* semver: a numeric identifier: digits, no leading zero
numeric(t) ==
    /\ t # <<>>
    /\ \A i \in 1..Len(t) : t[i] \in Digits
    /\ Len(t) = 1 \/ t[1] # "0"

\* the decimal digits in their order
Decimal == <<"0", "1", "2", "3", "4", "5", "6", "7", "8", "9">>

\* u64::from_str of a numeric identifier: the number its digits denote (the
\* texts here stay far below u64::MAX)
RECURSIVE parse_u64(_)
parse_u64(t) ==
    IF t = <<>> THEN 0
    ELSE 10 * parse_u64(SubSeq(t, 1, Len(t) - 1))
         + (CHOOSE d \in 0..9 : Decimal[d + 1] = t[Len(t)])

\* u64's Display: the decimal digits of a number, no leading zero
RECURSIVE fmt_u64(_)
fmt_u64(n) ==
    IF n < 10 THEN <<Decimal[n + 1]>> ELSE fmt_u64(n \div 10) \o <<Decimal[(n % 10) + 1]>>

\* semver: a pre-release identifier: letters, digits and hyphens; if all
\* digits, no leading zero
prerelease(t) ==
    /\ t # <<>>
    /\ \A i \in 1..Len(t) : t[i] \in Digits \cup Letters \cup {"-"}
    /\ (\A i \in 1..Len(t) : t[i] \in Digits) => numeric(t)

\* semver: a build identifier: letters, digits and hyphens
build(t) ==
    /\ t # <<>>
    /\ \A i \in 1..Len(t) : t[i] \in Digits \cup Letters \cup {"-"}

\* semver's Version::from_str: major.minor.patch[-pre][+build]; the value
\* holds the three numbers and the two identifier lists as they were written
Version_from_str(t) ==
    LET plus == find(t, <<"+">>)
        head == IF plus = 0 THEN t ELSE SubSeq(t, 1, plus - 1)
        minus == find(head, <<"-">>)
        core == split(IF minus = 0 THEN head ELSE SubSeq(head, 1, minus - 1), ".")
        pre == IF minus = 0 THEN <<>> ELSE SubSeq(head, minus + 1, Len(head))
        bld == IF plus = 0 THEN <<>> ELSE SubSeq(t, plus + 1, Len(t))
        pres == split(pre, ".")
        blds == split(bld, ".")
    IN  IF /\ Len(core) = 3
           /\ \A i \in 1..3 : numeric(core[i])
           /\ minus # 0 => \A i \in 1..Len(pres) : prerelease(pres[i])
           /\ plus # 0 => \A i \in 1..Len(blds) : build(blds[i])
           THEN [kind |-> "Ok", major |-> parse_u64(core[1]), minor |-> parse_u64(core[2]),
                 patch |-> parse_u64(core[3]), pre |-> pre, build |-> bld]
           ELSE [kind |-> "NotVersion"]

\* comment.rs 31-38: Comment::from_str.  The slice s[..PREFIX.len()] panics
\* when the eleventh byte is not the last byte of a character.
from_str(t) ==
    IF Len(t) < Len(PREFIX)
       THEN [kind |-> "NotShrinkRay"]
       ELSE IF ~is_char_boundary(t, Len(PREFIX))
               THEN [kind |-> "panic"]
               ELSE IF ~eq_ignore_ascii_case(SubSeq(t, 1, Len(PREFIX)), PREFIX)
                       THEN [kind |-> "NotShrinkRay"]
                       ELSE Version_from_str(SubSeq(t, Len(PREFIX) + 1, Len(t)))

\* a Display that leaves the build metadata out
to_string_without_build(v) ==
    PREFIX \o fmt_u64(v.major) \o <<".">> \o fmt_u64(v.minor) \o <<".">> \o fmt_u64(v.patch)
           \o (IF v.pre = <<>> THEN <<>> ELSE <<"-">> \o v.pre)

\* comment.rs 41-45 with semver's Display of Version: PREFIX, then
\* major.minor.patch, then -pre and +build where they are not empty
to_string(v) ==
    PREFIX \o fmt_u64(v.major) \o <<".">> \o fmt_u64(v.minor) \o <<".">> \o fmt_u64(v.patch)
           \o (IF v.pre = <<>> THEN <<>> ELSE <<"-">> \o v.pre)
           \o (IF v.build = <<>> THEN <<>> ELSE <<"+">> \o v.build)

\* image.rs 14-28: image::get_comment, given the exit status and the standard
\* output of `gm identify -verbose`.  What is parsed is the whole first line
\* from the place where "Comment:" was found, the label included.
image_get_comment(status, stdout) ==
    IF status # "success"
       THEN [kind |-> "Invocation"]
       ELSE LET index == find(stdout, <<"C", "o", "m", "m", "e", "n", "t", ":">>)
            IN  IF index = 0
                   THEN [kind |-> "None"]
                   ELSE from_str(trim(first_line(SubSeq(stdout, index, Len(stdout)))))

\* ------------------------------------------------ tool selection (shrink/mod.rs)
\* shrink/mod.rs 72-79: what get_format makes of libmagic's answer: a text
\* without a slash is no MIME type
get_format(magic) ==
    IF find(magic, <<"/">>) = 0 THEN [kind |-> "None"] ELSE [kind |-> "Some", mime |-> magic]

\* shrink/mod.rs 86-94: which::which(name), given the binaries on the PATH and
\* whether the lookup itself fails
which(name, path, broken) ==
    IF broken THEN [kind |-> "Which"]
    ELSE IF name \in path THEN [kind |-> "Ok", tool |-> name]
    ELSE [kind |-> "ToolNotFound", name |-> name]

\* a selection that takes every type that begins with "image/gif" for a GIF
for_format_gif_prefix(format, path, broken) ==
    IF format.kind = "None"
       THEN [ret |-> [kind |-> "None"], asked |-> {}]
    ELSE IF starts_with(format.mime, <<"i", "m", "a", "g", "e", "/", "g", "i", "f">>)
       THEN [ret |-> [kind |-> "None"], asked |-> {}]
    ELSE IF starts_with(format.mime, <<"i", "m", "a", "g", "e", "/">>)
       THEN [ret |-> which("gm", path, broken), asked |-> {"gm"}]
    ELSE IF starts_with(format.mime, <<"v", "i", "d", "e", "o", "/">>)
       THEN [ret |-> which("ffmpeg", path, broken), asked |-> {"ffmpeg"}]
    ELSE [ret |-> [kind |-> "None"], asked |-> {}]

\* shrink/mod.rs 31-46: ShrinkTool::for_file after get_format: the result and
\* the names which was asked for
for_format(format, path, broken) ==
    IF format.kind = "None"
       THEN [ret |-> [kind |-> "None"], asked |-> {}]
    ELSE IF format.mime = <<"i", "m", "a", "g", "e", "/", "g", "i", "f">>
       THEN [ret |-> [kind |-> "None"], asked |-> {}]
    ELSE IF starts_with(format.mime, <<"i", "m", "a", "g", "e", "/">>)
       THEN [ret |-> which("gm", path, broken), asked |-> {"gm"}]
    ELSE IF starts_with(format.mime, <<"v", "i", "d", "e", "o", "/">>)
       THEN [ret |-> which("ffmpeg", path, broken), asked |-> {"ffmpeg"}]
    ELSE [ret |-> [kind |-> "None"], asked |-> {}]

\* ------------------------------------------ binary resolution (context.rs)
\* context.rs 184: the variable that overrides the binary of a tool
var_name(name) == IF name = "gm" THEN "RAY_BIN_GM" ELSE "RAY_BIN_FFMPEG"

\* the values a variable of the environment has here: not set, or a path
EnvValues == {"unset", "/opt/tool"}

\* which::which: where a binary found on the PATH lies
SystemPath(name) == IF name = "gm" THEN "/usr/bin/gm" ELSE "/usr/bin/ffmpeg"

\* context.rs 183-197: Context::probe_env, given the environment and the
\* paths that exist
probe_env(name, env, existing) ==
    IF env[var_name(name)] = "unset" THEN [kind |-> "None"]
    ELSE IF env[var_name(name)] \notin existing
       THEN [kind |-> "BinaryInEnvNotFound", path |-> env[var_name(name)]]
    ELSE [kind |-> "Some", path |-> env[var_name(name)]]

\* context.rs 199-211: Context::probe_system, given the binaries on the PATH
\* and whether the lookup itself fails
probe_system(name, path, broken) ==
    IF broken THEN [kind |-> "Which"]
    ELSE IF name \in path THEN [kind |-> "Ok", path |-> SystemPath(name)]
    ELSE [kind |-> "BinaryNotFound", name |-> name]

\* context.rs 47-61: Context::command: the binary remembered for the name, or
\* else the override of the environment, or else the search of the PATH; what
\* was found is remembered.  The result and the binaries remembered after it.
command(binaries, name, env, existing, path, broken) ==
    IF name \in DOMAIN binaries
       THEN [ret |-> [kind |-> "Ok", program |-> binaries[name]], binaries |-> binaries]
       ELSE LET e == probe_env(name, env, existing)
                found == IF e.kind = "Some" THEN [kind |-> "Ok", path |-> e.path]
                         ELSE IF e.kind = "None" THEN probe_system(name, path, broken)
                         ELSE e
            IN  IF found.kind = "Ok"
                   THEN [ret |-> [kind |-> "Ok", program |-> found.path],
                         binaries |-> [n \in DOMAIN binaries \cup {name} |->
                                          IF n = name THEN found.path ELSE binaries[n]]]
                   ELSE [ret |-> found, binaries |-> binaries]

\* ------------------------------------------- sizes (delta.rs, stats.rs)
\* the integers of the width modelled: 0 .. Word - 1
Word == 2 ^ Bits

\* u64 subtraction and addition as the machine does them; a debug build
\* panics where the result does not fit, a release build wraps
wrapping_sub(a, b) == (a - b + Word) % Word

wrapping_add(a, b) == (a + b) % Word

\* delta.rs 9-11
Delta(original, new) == [original |-> original, new |-> new]

\* delta.rs 13-15
is_smaller(d) == d.original >= d.new

\* a difference that subtracts in one order only
difference_one_way(d) == wrapping_sub(d.original, d.new)

\* delta.rs 29-35: the larger size minus the smaller one
difference(d) ==
    IF d.original > d.new
       THEN wrapping_sub(d.original, d.new)
       ELSE wrapping_sub(d.new, d.original)

\* ------------------------------------------------ statistics (stats.rs)
\* what an addition or subtraction that panicked leaves instead of a number
Panic == -1

\* u64 `+`: a debug build panics when the sum does not fit, a release build
\* wraps
add(a, b, profile) ==
    IF a = Panic \/ b = Panic THEN Panic
    ELSE IF a + b < Word THEN a + b
    ELSE IF profile = "debug" THEN Panic
    ELSE wrapping_add(a, b)

\* u64 `-`: a debug build panics when the difference is below zero, a release
\* build wraps
sub(a, b, profile) ==
    IF a = Panic \/ b = Panic THEN Panic
    ELSE IF a >= b THEN a - b
    ELSE IF profile = "debug" THEN Panic
    ELSE wrapping_sub(a, b)

\* stats.rs 3-12: Statistics::default()
Statistics ==
    [processed |-> 0, saved |-> 0, wasted |-> 0,
     shrunk |-> 0, grew |-> 0, skipped |-> 0, failed |-> 0]

\* the call panicked
Panicked(st) == Panic \in {st.processed, st.saved, st.wasted}

\* stats.rs 15-19 (the counters of files stay far below usize::MAX)
Statistics_shrink(st, d, profile) ==
    [st EXCEPT !.processed = add(@, d.original, profile),
               !.saved = add(@, difference(d), profile),
               !.shrunk = @ + 1]

\* a grow that books the difference as saved
Statistics_grow_as_saved(st, d, profile) ==
    [st EXCEPT !.processed = add(@, d.original, profile),
               !.saved = add(@, difference(d), profile),
               !.grew = @ + 1]

\* stats.rs 21-25
Statistics_grow(st, d, profile) ==
    [st EXCEPT !.processed = add(@, d.original, profile),
               !.wasted = add(@, difference(d), profile),
               !.grew = @ + 1]

\* stats.rs 27-29
Statistics_skip(st) == [st EXCEPT !.skipped = @ + 1]

\* stats.rs 31-33
Statistics_fail(st) == [st EXCEPT !.failed = @ + 1]

\* stats.rs 51-53: Delta::new(processed, processed - saved + wasted)
Statistics_delta(st, profile) ==
    Delta(st.processed, add(sub(st.processed, st.saved, profile), st.wasted, profile))

\* ------------------------------------------------------- the batch driver
A == Path("a", 0, ".png")

B == Path("b", 0, ".jpg")

C == Path("c", 0, ".mp4")

\* a GIF image: a type the tool selection excludes
D == Path("d", 0, ".gif")

Files == {A, B, C, D}

\* libmagic's answer for a file of the batch (shrink/mod.rs 69)
magic(p) ==
    CASE p.tail = ".png" -> <<"i", "m", "a", "g", "e", "/", "p", "n", "g">>
      [] p.tail = ".jpg" -> <<"i", "m", "a", "g", "e", "/", "j", "p", "e", "g">>
      [] p.tail = ".gif" -> <<"i", "m", "a", "g", "e", "/", "g", "i", "f">>
      [] p.tail = ".mp4" -> <<"v", "i", "d", "e", "o", "/", "m", "p", "4">>
      [] OTHER -> <<"d", "a", "t", "a">>

\* image.rs 44-45, shrink/gm.rs 30-31: the comment a file carries.  b.jpg is
\* the output of an earlier run and carries the marker; the others carry none.
comment_of(p) ==
    IF p = B THEN PREFIX \o <<"1", ".", "2", ".", "0">> ELSE <<>>

\* shrink/mod.rs 28-47: ShrinkTool::for_file with both binaries on the PATH
for_file(p) ==
    LET r == for_format(get_format(magic(p)), {"gm", "ffmpeg"}, FALSE).ret
    IN  IF r.kind = "None" THEN "none" ELSE r.tool

\* the conversions a tool has: run_tool of main.rs, image::convert and
\* video::convert
Routes(tool) ==
    CASE tool = "gm" -> {"run_tool", "image"}
      [] tool = "ffmpeg" -> {"run_tool", "video1"}
      [] OTHER -> {}

\* image.rs 33, video.rs 33: the suffix of the output file.  run_input takes
\* it from the tool (main.rs 181); the output it names has the tool's
\* extension, which replace relies on (main.rs 369).
Suffix(tool) == IF tool = "gm" THEN ".jpg" ELSE ".webm"

\* the tail an extension is pushed as by replace (main.rs 380): no dot
Pushed(p) ==
    CASE p.tail = ".png" -> "png"
      [] p.tail = ".jpg" -> "jpg"
      [] p.tail = ".mp4" -> "mp4"
      [] OTHER -> ""

input == inputs[idx]

\* main.rs 75-84: the output options; NoPath and "" stand for None
Output(file_, prefix, dir) == [file |-> file_, prefix |-> prefix, dir |-> dir]

NoOutput == Output(NoPath, "", "")

\* PathBuf::join of a directory and the file name of an input: "." is the
\* directory the inputs lie in
join(dir, stem) ==
    IF dir = "." THEN stem
    ELSE CASE stem = "a" -> "out/a"
           [] stem = "b" -> "out/b"
           [] stem = "c" -> "out/c"
           [] OTHER -> "out/d"

\* main.rs 97-117: Output::get, the paths the output of a job can be at
get(path, suffix) ==
    IF args_output.file # NoPath THEN {args_output.file}
    ELSE IF args_output.prefix # "" THEN {Path(args_output.prefix, 0, suffix)}
    ELSE IF args_output.dir # "" THEN {Path(join(args_output.dir, path.stem), 0, suffix)}
    ELSE file(path, suffix, DOMAIN fs)

\* a driver that goes on with the next input after an error
fail_keep_going(e) ==
    /\ error' = e
    /\ exit_code' = "FAILURE"
    /\ idx' = idx + 1
    /\ pc' = "main"

\* main.rs 150-159: any error of a job ends the batch
fail(e) ==
    /\ error' = e
    /\ exit_code' = "FAILURE"
    /\ idx' = idx
    /\ pc' = "exit"

\* main.rs 149: the job is done and the loop goes on; the job's names go out
\* of scope
next_input ==
    /\ idx' = idx + 1
    /\ pc' = "main"
    /\ caller' = "none"
    /\ output' = NoPath
    /\ log_file' = NoPath
    /\ temp' = NoPath
    /\ UNCHANGED <<exit_code, error>>

\* the job goes on at another place of its code
goto(l) ==
    /\ pc' = l
    /\ UNCHANGED endVars

\* context.rs 83-90, 146: the locals of an invocation are dropped when its
\* caller has taken the result; a child that was waited for is gone, one that
\* was not keeps running
drop ==
    /\ cancel' = FALSE
    /\ progress' = 0
    /\ buf' = [s \in Streams |-> <<>>]
    /\ pipe' = [s \in Streams |-> <<>>]
    /\ written' = [s \in Streams |-> 0]
    /\ open' = {}
    /\ closed' = {}
    /\ sink' = [s \in Streams |-> <<>>]
    /\ observed' = FALSE
    /\ errno' = "none"
    /\ result' = NoResult
    /\ line' = line
    /\ children' = SelectSeq(children, LAMBDA c : c.state # "reaped")

\* main.rs 147-163 with run_input 166-196: the next input, up to the call of
\* the conversion; the names of the output and of the pass log are drawn by
\* temp::file (options.rs 68-71, video.rs 33-34)
main ==
    /\ pc = "main"
    /\ IF idx > Len(inputs)
          THEN /\ exit_code' = "SUCCESS"
               /\ pc' = "exit"
               /\ UNCHANGED <<jobVars, error, idx>>
          ELSE \/ /\ ~exists(input)
                  /\ fail("InputNotFound")
                  /\ UNCHANGED jobVars
               \/ /\ exists(input)
                  /\ for_file(input) = "none"
                  /\ next_input
               \/ /\ exists(input)
                  /\ for_file(input) # "none"
                  /\ fail("ToolNotFound")
                  /\ UNCHANGED jobVars
               \/ /\ exists(input)
                  /\ \E r \in Routes(for_file(input)) :
                     \E o \in get(input, Suffix(for_file(input))) :
                        /\ caller' = r
                        /\ output' = o
                        /\ IF r = "video1"
                              THEN log_file' \in file(input, "", DOMAIN fs)
                              ELSE log_file' = NoPath
                  /\ temp' = temp
                  /\ goto("call")
    /\ UNCHANGED <<cfgVars, fs, supVars, chlVars, budget>>

\* main.rs 233, image.rs 53, video.rs 47, 67, 75: remove_file whose failure is
\* only logged: the file is gone, or it is still there
try_remove(f, p) == IF p \in DOMAIN f THEN {remove(f, p), f} ELSE {f}

\* the deletions among those of paths that the file system refused, f being
\* the file system before them and g after them
refused(f, g, paths) == Cardinality({ p \in paths : p \in DOMAIN f /\ p \in DOMAIN g })

\* the file system refuses n deletions
charge(n) ==
    /\ budget.unlinks >= n
    /\ budget' = [budget EXCEPT !.unlinks = @ - n]

\* a comparison that takes an output of equal size for a grown one
Shrunk_strict(content) ==
    CASE content = "smaller" -> {TRUE}
      [] content \in {"equal", "larger"} -> {FALSE}
      [] OTHER -> BOOLEAN

\* main.rs 244-269: whether the output is no larger than the input
Shrunk(content) ==
    CASE content \in {"smaller", "equal"} -> {TRUE}
      [] content = "larger" -> {FALSE}
      [] OTHER -> BOOLEAN

\* main.rs 86-95: none of the output options is given
should_replace == args_output = NoOutput

\* main.rs 241-270 and 199-211: the sizes of input and output, the discard
\* of a grown output, and the decision to replace
measure(f) ==
    IF input \notin DOMAIN f \/ output \notin DOMAIN f
       THEN /\ fail("Io")
            /\ fs' = f
            /\ UNCHANGED jobVars
       ELSE \E sh \in (IF output = input THEN {TRUE} ELSE Shrunk(f[output])) :
               IF no_grow /\ ~sh
                  THEN \/ /\ fs' = remove(f, output)
                          /\ next_input
                       \/ /\ fs' = f
                          /\ fail("Io")
                          /\ UNCHANGED jobVars
                  ELSE IF ~should_replace
                          THEN /\ fs' = f
                               /\ next_input
                          ELSE /\ fs' = f
                               /\ goto("replace")
                               /\ UNCHANGED jobVars

\* main.rs 281-283: a status that is not success is an error of the tool
Failed(r) == r.kind # "Ok" \/ r.status # "success"

ErrorOf(r) == IF r.kind = "Ok" THEN "Conversion" ELSE r.kind

\* main.rs 227-270 with execute_tool 272-286: run_tool after execute_command
\* returned
run_tool ==
    /\ pc = "returned"
    /\ caller = "run_tool"
    /\ IF Failed(result)
          THEN /\ fs' \in try_remove(fs, output)
               /\ charge(refused(fs, fs', {output}))
               /\ fail(ErrorOf(result))
               /\ UNCHANGED jobVars
          ELSE measure(fs) /\ charge(0)
    /\ drop
    /\ UNCHANGED cfgVars

\* image.rs 48-60: image::convert after Context::run returned, followed by
\* the caller's measurement
image_convert ==
    /\ pc = "returned"
    /\ caller = "image"
    /\ IF result.kind # "Ok"
          THEN /\ fs' \in try_remove(fs, output)
               /\ charge(refused(fs, fs', {output}))
               /\ fail(result.kind)
               /\ UNCHANGED jobVars
          ELSE measure(fs) /\ charge(0)
    /\ drop
    /\ UNCHANGED cfgVars

\* a first pass that leaves the pass log where it is when it fails
video_pass1_keeping_log ==
    /\ pc = "returned"
    /\ caller = "video1"
    /\ IF result.kind # "Ok"
          THEN /\ fs' = fs
               /\ charge(0)
               /\ fail(result.kind)
               /\ UNCHANGED jobVars
          ELSE /\ caller' = "video2"
               /\ goto("call")
               /\ charge(0)
               /\ UNCHANGED <<fs, output, log_file, temp>>
    /\ drop
    /\ UNCHANGED cfgVars

\* video.rs 44-63: video::convert after the first pass returned
video_pass1 ==
    /\ pc = "returned"
    /\ caller = "video1"
    /\ IF result.kind # "Ok"
          THEN /\ fs' \in try_remove(fs, full_log_file_name(log_file))
               /\ charge(refused(fs, fs', {full_log_file_name(log_file)}))
               /\ fail(result.kind)
               /\ UNCHANGED jobVars
          ELSE /\ caller' = "video2"
               /\ goto("call")
               /\ charge(0)
               /\ UNCHANGED <<fs, output, log_file, temp>>
    /\ drop
    /\ UNCHANGED cfgVars

\* video.rs 65-82: video::convert after the second pass returned, followed by
\* the caller's measurement
video_pass2 ==
    /\ pc = "returned"
    /\ caller = "video2"
    /\ \E f \in try_remove(fs, full_log_file_name(log_file)) :
          IF result.kind # "Ok"
             THEN /\ fs' \in try_remove(f, output)
                  /\ charge(refused(fs, fs', {full_log_file_name(log_file), output}))
                  /\ fail(result.kind)
                  /\ UNCHANGED jobVars
             ELSE /\ measure(f)
                  /\ charge(refused(fs, f, {full_log_file_name(log_file)}))
    /\ drop
    /\ UNCHANGED cfgVars

\* ------------------------------------------------- replace (main.rs 366-395)
\* main.rs 369: the input path with the output's extension
destination == with_extension(input, extension(output))

\* a replace that does not look at the destination
collides_ignored(existing) == FALSE

\* main.rs 376: the destination is another file than the input and exists
collides(existing) == input # destination /\ destination \in existing

\* main.rs 366-382: the collision check, the temporary name, and step (a):
\* the original is renamed to the temporary name
replace_a ==
    /\ pc = "replace"
    /\ IF collides(DOMAIN fs)
          THEN /\ fail("OutputExists")
               /\ UNCHANGED <<jobVars, fs>>
          ELSE \E t \in file(input, Pushed(input), DOMAIN fs) :
                  /\ temp' = t
                  /\ UNCHANGED <<caller, output, log_file>>
                  /\ \/ /\ fs' = rename(fs, input, t)
                        /\ goto("replace_b")
                     \/ /\ fail("Io")
                        /\ UNCHANGED fs
    /\ UNCHANGED <<cfgVars, supVars, chlVars, budget>>

\* a replace that cleans the temporary name up when step (b) fails
replace_b_cleanup ==
    /\ pc = "replace_b"
    /\ \/ /\ exists(output)
          /\ fs' = rename(fs, output, destination)
          /\ goto("replace_c")
       \/ /\ fail("Io")
          /\ fs' = remove(fs, temp)
    /\ UNCHANGED <<cfgVars, jobVars, supVars, chlVars, budget>>

\* main.rs 384-389: step (b): the output is renamed to the destination
replace_b ==
    /\ pc = "replace_b"
    /\ \/ /\ exists(output)
          /\ fs' = rename(fs, output, destination)
          /\ goto("replace_c")
       \/ /\ fail("Io")
          /\ UNCHANGED fs
    /\ UNCHANGED <<cfgVars, jobVars, supVars, chlVars, budget>>

\* main.rs 391-394: step (c): the relocated original is deleted
replace_c ==
    /\ pc = "replace_c"
    /\ \/ /\ fs' = remove(fs, temp)
          /\ next_input
       \/ /\ fail("Io")
          /\ UNCHANGED <<jobVars, fs>>
    /\ UNCHANGED <<cfgVars, supVars, chlVars, budget>>

\* ------------------------------------------------------------ the program
\* the batches: NInputs files starting anywhere in the cycle a, b, c, d
Cycle == <<A, B, C, D>>

Batches ==
    { [i \in 1..NInputs |-> Cycle[((k + i - 2) % Len(Cycle)) + 1]] : k \in 1..Len(Cycle) }

\* a file of other origin that may lie where the destination of a.png will be
Foreign == {Path("a", 0, ".jpg")}

Disk(b, pre) ==
    [p \in { b[i] : i \in 1..Len(b) } \cup pre |->
        IF p \in pre THEN "foreign" ELSE "orig"]

\* nothing is running and no invocation is in progress
Idle ==
    /\ children = <<>>
    /\ cancel = FALSE
    /\ progress = 0
    /\ buf = [s \in Streams |-> <<>>]
    /\ pipe = [s \in Streams |-> <<>>]
    /\ written = [s \in Streams |-> 0]
    /\ open = {}
    /\ closed = {}
    /\ sink = [s \in Streams |-> <<>>]
    /\ line = "none"
    /\ result = NoResult
    /\ observed = FALSE
    /\ errno = "none"

Init ==
    /\ inputs \in Batches
    /\ no_grow \in BOOLEAN
    /\ args_output = NoOutput
    /\ \E pre \in SUBSET Foreign : fs = Disk(inputs, pre)
    /\ idx = 1
    /\ pc = "main"
    /\ caller = "none"
    /\ output = NoPath
    /\ log_file = NoPath
    /\ temp = NoPath
    /\ exit_code = "none"
    /\ error = "none"
    /\ budget = [signals |-> BatchSignals, ticks |-> 0, writes |-> 0, eofs |-> 0,
                 unlinks |-> MaxRefused]
    /\ arg = <<>>
    /\ ret = NoRet
    /\ Idle

\* what the child does while it runs
Chatter ==
    \/ \E s \in Streams, nl \in BOOLEAN : child_write(s, nl)
    \/ \E s \in Streams : child_close(s)

Process ==
    \/ \E i \in 1..Len(children) : child_create(i)
    \/ \E i \in 1..Len(children), st \in Statuses : child_exit(i, st)

Supervise ==
    \/ run_spawn
    \/ run_wait
    \/ run_stderr
    \/ run_stdout
    \/ run_ctrl_c
    \/ execute_command_spawn
    \/ execute_command_wait
    \/ execute_command_stderr
    \/ execute_command_ctrl_c

Ticks ==
    \/ run_tick
    \/ execute_command_tick

Drive ==
    \/ main
    \/ run_tool
    \/ image_convert
    \/ video_pass1
    \/ video_pass2
    \/ replace_a
    \/ replace_b
    \/ replace_c

\* the batch, with children that write nothing to their streams and exit
\* before the timer ticks
Next == Drive \/ Supervise \/ Process

Spec == Init /\ [][Next]_vars

\* the output options a batch of one input can be given (main.rs 75-84: at
\* most one of the three): a file, a prefix or a directory that is the
\* input's own, and one that is not
Outputs(path) ==
    { Output(f, "", "") : f \in {path, Path("o", 0, ".out")} }
       \cup { Output(NoPath, p, "") : p \in {path.stem, "o"} }
       \cup { Output(NoPath, "", d) : d \in {".", "out"} }

\* a batch of one input, with or without an output option (main.rs 127-143
\* rejects --output-file and --output-prefix for more inputs than one); the
\* directory of the output exists (main.rs 189-196)
InitOutput ==
    /\ \E path \in Files :
          /\ inputs = <<path>>
          /\ args_output \in {NoOutput} \cup Outputs(path)
    /\ no_grow \in BOOLEAN
    /\ fs = Disk(inputs, {})
    /\ idx = 1
    /\ pc = "main"
    /\ caller = "none"
    /\ output = NoPath
    /\ log_file = NoPath
    /\ temp = NoPath
    /\ exit_code = "none"
    /\ error = "none"
    /\ budget = [signals |-> BatchSignals, ticks |-> 0, writes |-> 0, eofs |-> 0,
                 unlinks |-> MaxRefused]
    /\ arg = <<>>
    /\ ret = NoRet
    /\ Idle

SpecOutput == InitOutput /\ [][Next]_vars

\* one invocation of a supervisor, from its call to its return, with a child
\* that writes to its streams
InitRun ==
    /\ \E p \in {A, C}, r \in {"run_tool", "image", "video1", "video2"} :
          /\ r \in Routes(for_file(p)) \ {"run_tool"}
                \/ (r = "video2" /\ for_file(p) = "ffmpeg")
                \/ (r = "run_tool" /\ p = A)
          /\ inputs = <<p>>
          /\ caller = r
          /\ output = candidate(p, 1, Suffix(for_file(p)))
          /\ log_file = IF r \in {"video1", "video2"} THEN candidate(p, 1, "") ELSE NoPath
          /\ fs = IF r = "video2"
                     THEN put(Disk(inputs, {}), full_log_file_name(log_file), "log")
                     ELSE Disk(inputs, {})
    /\ no_grow = FALSE
    /\ args_output = NoOutput
    /\ idx = 1
    /\ pc = "call"
    /\ temp = NoPath
    /\ exit_code = "none"
    /\ error = "none"
    /\ budget = [signals |-> MaxSignals, ticks |-> MaxTicks, writes |-> MaxWrites,
                 eofs |-> MaxEof, unlinks |-> 0]
    /\ arg = <<>>
    /\ ret = NoRet
    /\ Idle

NextRun == Supervise \/ Ticks \/ Process \/ Chatter

SpecRun == InitRun /\ [][NextRun]_vars

\* ------------------------------------------- the functions, one call each
\* the texts of at most n pieces
RECURSIVE Texts(_, _)
Texts(pieces, n) ==
    IF n = 0 THEN {<<>>}
    ELSE LET shorter == Texts(pieces, n - 1)
         IN  shorter \cup { t \o q : t \in shorter, q \in pieces }

\* what a comment, or the output of the probe, is made of
MarkerPieces ==
    { PREFIX,
      <<"S", "H", "R", "I", "N", "K", "-", "R", "A", "Y", "/">>,
      <<"1", ".", "2", ".", "0">>,
      <<"1", ".", "2">>,
      <<"x">>,
      <<"0xC3", "0xA9">>,
      <<"C", "o", "m", "m", "e", "n", "t", ":", " ">>,
      <<"\n">> }

\* what an answer of libmagic is made of
MimePieces ==
    { <<"i", "m", "a", "g", "e", "/">>,
      <<"v", "i", "d", "e", "o", "/">>,
      <<"t", "e", "x", "t", "/">>,
      <<"g", "i", "f">>,
      <<"p", "n", "g">>,
      <<"x">> }

\* the names temp::file may find taken when it is asked for a name for a.png
Taken == { candidate(A, r, ".jpg") : r \in 1..NSuffix }

InitProbe ==
    /\ arg \in Texts(MarkerPieces, MaxPieces) \cup Texts(MimePieces, MaxPieces)
    /\ ret = NoRet
    /\ pc = "probe"
    /\ inputs = <<>>
    /\ no_grow = FALSE
    /\ args_output = NoOutput
    /\ \E pre \in SUBSET Taken : fs = Disk(inputs, IF arg = <<>> THEN pre ELSE {})
    /\ idx = 1
    /\ caller = "none"
    /\ output = NoPath
    /\ log_file = NoPath
    /\ temp = NoPath
    /\ exit_code = "none"
    /\ error = "none"
    /\ budget = [signals |-> 0, ticks |-> 0, writes |-> 0, eofs |-> 0, unlinks |-> 0]
    /\ Idle

\* what a call leaves alone
probed ==
    /\ pc' = "probed"
    /\ UNCHANGED <<fs, inputs, no_grow, args_output, arg, jobVars, endVars, supVars, chlVars, budget>>

\* comment.rs 28-39: Comment::from_str is called with the text
call_from_str ==
    /\ pc = "probe"
    /\ ret' = [fn |-> "from_str", val |-> from_str(arg)]
    /\ probed

\* image.rs 7-29: image::get_comment, the probe having printed the text
call_get_comment ==
    /\ pc = "probe"
    /\ \E status \in {"success", "failure"} :
          ret' = [fn |-> "get_comment", status |-> status,
                  val |-> image_get_comment(status, arg)]
    /\ probed

\* shrink/mod.rs 28-47: ShrinkTool::for_file, libmagic having answered the text
call_for_file ==
    /\ pc = "probe"
    /\ \E path \in SUBSET {"gm", "ffmpeg"}, broken \in BOOLEAN :
          ret' = [fn |-> "for_file", path |-> path, broken |-> broken,
                  val |-> for_format(get_format(arg), path, broken)]
    /\ probed

\* the environments of the process
Envs == [{"RAY_BIN_GM", "RAY_BIN_FFMPEG"} -> EnvValues]

\* context.rs 47-61: Context::command is called, for the first time or again;
\* the environment of the process stays as it is, the file system may change
\* between the calls
call_command ==
    /\ arg = <<>>
    /\ pc = "probe" \/ (pc = "probed" /\ ret.fn = "command")
    /\ \E name \in {"gm", "ffmpeg"}, path \in SUBSET {"gm", "ffmpeg"},
          existing \in SUBSET {"/opt/tool"}, broken \in BOOLEAN :
       \E env \in IF pc = "probe" THEN Envs ELSE {ret.env} :
          LET binaries == IF pc = "probe" THEN <<>> ELSE ret.after
              r == command(binaries, name, env, existing, path, broken)
          IN  ret' = [fn |-> "command", name |-> name, env |-> env,
                      existing |-> existing, path |-> path, broken |-> broken,
                      before |-> binaries, after |-> r.binaries, val |-> r.ret]
    /\ probed

\* shrink/mod.rs 82-95: ShrinkTool::which is called
call_which ==
    /\ arg = <<>>
    /\ pc = "probe"
    /\ \E name \in {"gm", "ffmpeg"}, path \in SUBSET {"gm", "ffmpeg"},
          existing \in SUBSET {"/opt/tool"}, broken \in BOOLEAN, env \in Envs :
          ret' = [fn |-> "which", name |-> name, env |-> env,
                  existing |-> existing, path |-> path, broken |-> broken,
                  val |-> which(name, path, broken)]
    /\ probed

\* pre-release identifiers of a version: none, letters and digits, several
\* identifiers, a hyphen inside, a lone zero
Prereleases ==
    { <<>>, <<"r", "c", "1">>, <<"x", ".", "7">>, <<"r", "c", "-", "1">>, <<"0">> }

\* build metadata of a version: none, letters and digits, leading zeros, a
\* hyphen inside
Builds == { <<>>, <<"b", "1">>, <<"0", "0", "7">>, <<"x", "-", "y">> }

\* the versions: semver::Version values
Versions ==
    [major : 0..MaxNum, minor : {0, MaxNum}, patch : {0, 1}, pre : Prereleases, build : Builds]

\* comment.rs 41-45, 31-38: a Comment is formatted and the text is parsed
call_to_string ==
    /\ arg = <<>>
    /\ pc = "probe"
    /\ \E v \in Versions :
          ret' = [fn |-> "to_string", version |-> v, text |-> to_string(v),
                  val |-> from_str(to_string(v))]
    /\ probed

\* delta.rs 9-35: a Delta is made of two sizes and asked
call_delta ==
    /\ arg = <<>>
    /\ pc = "probe"
    /\ \E original \in 0..(Word - 1), new \in 0..(Word - 1) :
          ret' = [fn |-> "Delta", original |-> original, new |-> new,
                  is_smaller |-> is_smaller(Delta(original, new)),
                  difference |-> difference(Delta(original, new))]
    /\ probed

\* temp.rs 9-31: temp::file is called for a.png and the suffix .jpg; the
\* function looks at the file system and writes nothing
call_file ==
    /\ arg = <<>>
    /\ pc = "probe"
    /\ \E draws \in Draws :
          ret' = [fn |-> "file", draws |-> draws, existing |-> DOMAIN fs,
                  val |-> file_loop(A, ".jpg", DOMAIN fs, draws)]
    /\ probed

\* the sizes of files a Statistics is fed with: none, one byte, half the
\* range, the largest size
Sizes == {0, 1, Word \div 2, Word - 1}

\* stats.rs 3-12: a Statistics is made, in a debug or in a release build; the
\* sums of the sizes it will be fed with are kept beside it
new_statistics ==
    /\ arg = <<>>
    /\ pc = "probe"
    /\ \E profile \in {"debug", "release"} :
          ret' = [fn |-> "Statistics", profile |-> profile, st |-> Statistics,
                  last |-> "new", calls |-> 0, originals |-> 0, news |-> 0]
    /\ probed

\* a call on the Statistics: st is what it leaves, d the delta it was given
called(name, st, d) ==
    /\ ret' = [ret EXCEPT !.st = st, !.last = name, !.calls = @ + 1,
                          !.originals = @ + d.original, !.news = @ + d.new]
    /\ probed

\* the Statistics can be called once more
Callable ==
    /\ pc = "probed"
    /\ ret.fn = "Statistics"
    /\ ret.calls < MaxCalls
    /\ ~Panicked(ret.st)

\* stats.rs 15-19: shrink(delta) with a delta that did not grow
call_shrink ==
    /\ Callable
    /\ \E original \in Sizes, new \in Sizes :
          /\ original >= new
          /\ called("shrink", Statistics_shrink(ret.st, Delta(original, new), ret.profile),
                    Delta(original, new))

\* stats.rs 21-25: grow(delta) with a delta that grew
call_grow ==
    /\ Callable
    /\ \E original \in Sizes, new \in Sizes :
          /\ new > original
          /\ called("grow", Statistics_grow(ret.st, Delta(original, new), ret.profile),
                    Delta(original, new))

\* stats.rs 27-29
call_skip ==
    /\ Callable
    /\ called("skip", Statistics_skip(ret.st), Delta(0, 0))

\* stats.rs 31-33
call_fail ==
    /\ Callable
    /\ called("fail", Statistics_fail(ret.st), Delta(0, 0))

NextProbe ==
    \/ call_from_str
    \/ call_get_comment
    \/ call_for_file
    \/ call_command
    \/ call_which
    \/ call_to_string
    \/ call_delta
    \/ call_file
    \/ new_statistics
    \/ call_shrink
    \/ call_grow
    \/ call_skip
    \/ call_fail

SpecProbe == InitProbe /\ [][NextProbe]_vars

\* ============================================================== claims
\* In SpecRun (one invocation) an interrupt was received iff the operator's
\* budget is no longer full.
Interrupted == budget.signals < MaxSignals

\* the step is the supervisor receiving an interrupt
Interrupt == budget'.signals < budget.signals

\* C1: Context::run: if an interrupt was received before the child's exit was
\* observed, the invocation returns Cancelled, whatever the exit status of the
\* child is; it never returns that status as an ordinary outcome.
C1_CancelPrecedence ==
    (pc = "returned" /\ caller \in RunCallers /\ observed /\ Interrupted)
        => result = Err("Cancelled", "wait")

\* C1's case: a cancelled invocation whose child exited with success
C1_Witness ==
    /\ pc = "returned"
    /\ caller \in RunCallers
    /\ observed
    /\ Interrupted
    /\ children[cur].status = "success"
    /\ result.kind = "Cancelled"

\* C2: on every path by which a supervisor returns after the status line was
\* started, the status line has been cleared.
C2_StatusLineCleared ==
    (pc = "returned" /\ result.site # "spawn") => line = "cleared"

\* C3: in every state in which a supervisor has returned, the child it
\* spawned has exited.
C3_NoChildOutlives ==
    pc = "returned" => Alive = {}

C5_ForwardFailureReturned ==
    errno \notin {"none", "sent", "ESRCH"}
        => (pc = "returned" /\ result = Err("Nix", errno))

\* C5's case: kill answered EPERM
C5_Witness ==
    /\ errno = "EPERM"
    /\ pc = "returned"

\* C6: an interrupt received while a cancel is pending changes
\* neither the supervisor's state nor its outcome.
C6_SecondCancelIdempotent ==
    [][(cancel /\ Interrupt)
          => /\ cancel' = cancel
             /\ progress' = progress
             /\ buf' = buf
             /\ pc' = pc
             /\ result' = result]_vars

\* C7: when a supervisor returns after observing the child's exit, every
\* complete line the child wrote has been forwarded: none is left unread.
C7_LateOutputDrained ==
    (pc = "returned" /\ observed)
        => \A s \in Captured(caller) :
              \A i \in 1..Len(pipe[s]) : ~pipe[s][i].nl

\* C8: at most one supervised child is alive, and a child is spawned only
\* when no earlier child is alive.
C8_Sequential ==
    /\ [](Cardinality(Alive) <= 1)
    /\ [][(pc = "call" /\ pc' = "loop") => Alive = {}]_vars

\* C8's case: the second pass of a video runs, the first is over
C8_Witness ==
    /\ pc = "loop"
    /\ caller = "video2"
    /\ Alive = {cur}

\* C9: if the destination differs from the input and exists, replace fails
\* with the destination-exists error and leaves every file as it was.
C9_CollisionLeavesAll ==
    [][(pc = "replace" /\ input # destination /\ destination \in DOMAIN fs)
          => /\ fs' = fs
             /\ pc' = "exit"
             /\ error' = "OutputExists"]_vars

\* C9's case: replace has failed on a file that lies at the destination
C9_Witness ==
    /\ pc = "exit"
    /\ error = "OutputExists"
    /\ input # destination
    /\ exists(input) /\ fs[input] = "orig"
    /\ exists(output)
    /\ exists(destination) /\ fs[destination] = "foreign"

Original(p) == exists(p) /\ fs[p] = "orig"

\* C10: in every state of the replace transaction the original is intact (at
\* the input path, then at the temporary name) until the output is installed
\* at the destination; a step that fails changes no file, so that when step
\* (b) fails the original is at the temporary name and nothing was deleted;
\* the step that deletes the original leaves the output at the destination.
C10_ReplaceKeepsCopy ==
    /\ [](/\ pc = "replace" => Original(input) /\ exists(output)
          /\ pc = "replace_b" => Original(temp) /\ exists(output)
          /\ pc = "replace_c" => Original(temp) /\ exists(destination))
    /\ [][/\ (pc \in {"replace", "replace_b", "replace_c"} /\ pc' = "exit")
                => fs' = fs
          /\ pc = "replace_c"
                => (destination \in DOMAIN fs' /\ fs'[destination] = fs[destination])
         ]_vars

\* C10's case: step (b) has failed
C10_Witness ==
    /\ pc = "exit"
    /\ error = "Io"
    /\ temp # NoPath
    /\ Original(temp)
    /\ exists(output)
    /\ ~exists(input) \/ input = destination

\* C11: a failure of step (c) after a successful step (b) is not an error of
\* the job: the step that handles it neither ends the batch nor records a
\* failure.
C11_CleanupFailureLogged ==
    [][pc = "replace_c"
          => (pc' # "exit" /\ exit_code' = exit_code /\ error' = error)]_vars

\* C14: when the child of an invocation has exited with a status other than
\* success, the conversion fails with the invocation-failed error: neither a
\* measurement, nor a replace, nor a further pass follows.
C14_NonZeroExitFails ==
    [][(pc = "returned" /\ pc' # pc /\ result.kind = "Ok" /\ result.status # "success")
          => (pc' = "exit" /\ error' = "Conversion")]_vars

\* C15: when an invocation that may have written the output has failed (an
\* error, a cancel, or an exit status other than success), the transaction
\* ends with exactly the invocation's error, and the output file is either
\* deleted or, if the deletion failed, left as it was.
C15_FailureDeletesOutput ==
    [][(pc = "returned" /\ pc' # pc /\ caller # "video1" /\ (Failed(result) \/ cancel))
          => /\ pc' = "exit"
             /\ error' = IF Failed(result) THEN ErrorOf(result) ELSE "Cancelled"
             /\ output \notin DOMAIN fs' \/ (exists(output) /\ fs'[output] = fs[output])
      ]_vars

\* C16: after a job that ended in failure none of the files it created is on
\* disk: not the output, not the pass log, and the temporary name of the
\* original only when step (b) of replace failed (the destination was not
\* installed).
C16_FailureLeavesNothing ==
    (pc = "exit" /\ exit_code = "FAILURE")
        => /\ ~exists(output)
           /\ log_file # NoPath => ~exists(full_log_file_name(log_file))
           /\ (temp # NoPath /\ exists(temp)) => ~exists(destination)

\* In Spec (the batch) an interrupt was received iff the operator's budget is
\* no longer full.
BatchInterrupted == budget.signals < BatchSignals

\* C17: once an interrupt was received while an input was processed, the
\* driver never stands before a later input of the batch.
C17_CancelStopsBatch ==
    (BatchInterrupted /\ pc = "main") => idx > Len(inputs)

\* the input the driver is about to take carries a marker that parses
Marked ==
    /\ pc = "main"
    /\ idx <= Len(inputs)
    /\ exists(input)
    /\ from_str(comment_of(input)).kind = "Ok"

\* C12: an input that carries a parseable marker is passed over before any
\* compressor is spawned: the driver does not call a conversion for it and no
\* file is created or changed.
C12_MarkedInputSkipped ==
    [][(Marked /\ <<pc, idx>>' # <<pc, idx>>)
          => (pc' # "call" /\ fs' = fs /\ children' = children)]_vars

\* C13: a comment that does not parse as a marker is no marker: the probe of
\* an image whose comment is not a marker answers "no marker present", and the
\* failure to parse is never what the probe returns.
C13_UnparsableIsNoMarker ==
    (ret.fn = "get_comment" /\ ret.status = "success")
        => ret.val.kind \in {"None", "Ok"}

\* the step is the driver's step for the input it is about to take
Takes == pc = "main" /\ idx <= Len(inputs) /\ <<pc, idx>>' # <<pc, idx>>

\* the driver passes the input over: the batch goes on with the next input and
\* neither the exit status nor the file system records anything
Skips ==
    /\ pc' = "main"
    /\ idx' = idx + 1
    /\ exit_code' = exit_code
    /\ error' = error
    /\ fs' = fs
    /\ children' = children

\* C18: an input of an unsupported type, or one that is already converted, is
\* a skip: the batch goes on with the next input and the exit status is not
\* affected (a tool that cannot be found is found out before the marker is
\* looked at).
C18_SkipsDoNotFail ==
    [][(Takes /\ exists(input) /\ (for_file(input) = "none" \/ Marked))
          => (Skips \/ error' = "ToolNotFound")]_vars

\* C19: a failed invocation fails its own file only: with the policy to keep
\* going in force, the batch goes on with the next input after a compressor
\* that was not interrupted has exited with a status other than success.
C19_InvocationFailureIsPerFile ==
    [][(/\ pc = "returned"
        /\ pc' # pc
        /\ caller = "run_tool"
        /\ ~cancel
        /\ result.kind = "Ok"
        /\ result.status # "success")
          => (pc' = "main" /\ idx' = idx + 1)]_vars

\* the table of the tool selection: the tool of a MIME type, "none" if the
\* type is not supported
Table(mime) ==
    LET image == <<"i", "m", "a", "g", "e", "/">>
        video == <<"v", "i", "d", "e", "o", "/">>
    IN  IF mime = image \o <<"g", "i", "f">> THEN "none"
        ELSE IF Len(mime) >= Len(image) /\ SubSeq(mime, 1, Len(image)) = image THEN "gm"
        ELSE IF Len(mime) >= Len(video) /\ SubSeq(mime, 1, Len(video)) = video THEN "ffmpeg"
        ELSE "none"

\* C20: the tool selection is the function of the MIME type the table gives:
\* image/gif and every type that is neither image/... nor video/... are
\* unsupported, Ok(None), and no binary is looked for; the other image types
\* get the image tool and the video types the video tool; a binary that is not
\* on the PATH is the error tool-not-found with the tool's name, and no failed
\* lookup is ever answered with Ok(None).
C20_ToolSelectionTable ==
    ret.fn = "for_file" =>
        LET tool == Table(arg)
            val == ret.val.ret
        IN  IF tool = "none"
               THEN val = [kind |-> "None"] /\ ret.val.asked = {}
               ELSE /\ ret.val.asked = {tool}
                    /\ val.kind # "None"
                    /\ (~ret.broken /\ tool \in ret.path) => val = [kind |-> "Ok", tool |-> tool]
                    /\ (~ret.broken /\ tool \notin ret.path)
                          => val = [kind |-> "ToolNotFound", name |-> tool]

\* C20 witness: the type image/gifx, which is not image/gif, was looked up with
\* no gm on the PATH, and the answer is tool-not-found
C20_Witness ==
    /\ ret.fn = "for_file"
    /\ arg = <<"i", "m", "a", "g", "e", "/", "g", "i", "f", "x">>
    /\ ~ret.broken
    /\ "gm" \notin ret.path
    /\ ret.val.ret = [kind |-> "ToolNotFound", name |-> "gm"]

\* the override of the tool that was asked for is set to a path that exists
OverrideSet ==
    /\ ret.fn \in {"command", "which"}
    /\ ret.env[var_name(ret.name)] # "unset"
    /\ ret.env[var_name(ret.name)] \in ret.existing

\* the binary a resolution answered
Resolved ==
    IF ret.fn = "command" THEN ret.val.program ELSE SystemPath(ret.val.tool)

\* C21: the resolution of a binary looks at the override of the environment
\* first: when the variable of the tool is set to a path that exists, that path
\* is the binary, whatever the PATH holds.
C21_OverrideFirst ==
    OverrideSet => (ret.val.kind = "Ok" /\ Resolved = ret.env[var_name(ret.name)])

\* C22: the marker round trip: whatever valid version a marker holds, the text
\* it is formatted as parses, and the marker parsed is equal to the original in
\* every part.
C22_MarkerRoundTrip ==
    ret.fn = "to_string" =>
        /\ ret.val.kind = "Ok"
        /\ [f \in {"major", "minor", "patch", "pre", "build"} |-> ret.val[f]] = ret.version

\* C22 witness: a version with a two-digit number, a pre-release with a hyphen
\* inside and build metadata with leading zeros was formatted and parsed
C22_Witness ==
    /\ ret.fn = "to_string"
    /\ ret.version = [major |-> 10, minor |-> 0, patch |-> 1,
                      pre |-> <<"r", "c", "-", "1">>, build |-> <<"0", "0", "7">>]
    /\ ret.text = PREFIX \o <<"1", "0", ".", "0", ".", "1", "-", "r", "c", "-", "1",
                              "+", "0", "0", "7">>
    /\ ret.val.kind = "Ok"

\* C23: for every pair of sizes, is_smaller is true exactly when the original
\* is at least the new size, and difference is the distance of the two sizes,
\* in whichever order they are, with no wrap-around.
C23_DeltaExact ==
    ret.fn = "Delta" =>
        /\ ret.is_smaller = (ret.original >= ret.new)
        /\ ret.difference = IF ret.original >= ret.new
                               THEN ret.original - ret.new
                               ELSE ret.new - ret.original

\* C23 witness: a Delta whose new size is the largest size and whose original
\* is zero was asked: it is not smaller and the difference is the largest size
C23_Witness ==
    /\ ret.fn = "Delta"
    /\ ret.original = 0
    /\ ret.new = Word - 1
    /\ ~ret.is_smaller
    /\ ret.difference = Word - 1

\* C24: temp::file never returns a path that exists when it is called: it
\* draws again while its candidate exists, returns the first candidate that
\* does not exist, and the paths that exist are the same after the call.
C24_TempNameIsFree ==
    ret.fn = "file" =>
        LET tried == { n \in 1..Len(ret.draws) :
                          candidate(A, ret.draws[n], ".jpg") \notin ret.existing }
        IN  /\ DOMAIN fs = ret.existing
            /\ ret.val \notin DOMAIN fs
            /\ IF tried = {}
                  THEN ret.val = NoPath
                  ELSE \E n \in tried :
                          /\ \A m \in tried : n <= m
                          /\ ret.val = candidate(A, ret.draws[n], ".jpg")

\* C24 witness: the first candidate drawn existed, the second did not, and the
\* second one was returned
C24_Witness ==
    /\ ret.fn = "file"
    /\ candidate(A, ret.draws[1], ".jpg") \in ret.existing
    /\ ret.val = candidate(A, ret.draws[2], ".jpg")
    /\ ret.val \notin DOMAIN fs

\* the step is the measurement after a successful conversion whose output is
\* there, with the policy to discard growth in force
Measures ==
    /\ pc = "returned"
    /\ pc' # pc
    /\ caller \in {"run_tool", "image", "video2"}
    /\ result.kind = "Ok"
    /\ result.status = "success"
    /\ no_grow
    /\ exists(input)
    /\ exists(output)
    /\ fs[output] \in {"smaller", "equal", "larger"}

\* the job ends without error and the batch goes on
Resolves ==
    /\ pc' = "main"
    /\ idx' = idx + 1
    /\ error' = error
    /\ exit_code' = exit_code

\* the input is where and what it was
InputUntouched == input \in DOMAIN fs' /\ fs'[input] = fs[input]

\* the output is where and what it was, and the job goes on to the replace
OutputKept == output \in DOMAIN fs' /\ fs'[output] = fs[output] /\ pc' = "replace"

C26_CancelAloneDoesNotReturn ==
    [][(pc = "loop" /\ pc' = "returned" /\ cancel' /\ errno' \in {"sent", "ESRCH"})
          => observed']_vars

\* the lines whose bytes a sequence of bytes holds
LinesOf(bytes) == { bytes[i] : i \in 1..Len(bytes) }

\* C27: within one invocation the lines of each captured stream reach the
\* sink in the order they were read, each line once; an annotation holds the
\* bytes of one line only, and after a forward the buffer holds nothing of the
\* lines forwarded so far.
C27_LinesForwardedInOrder ==
    \A s \in Streams :
        /\ \A i \in 1..Len(sink[s]) : Cardinality(LinesOf(sink[s][i])) <= 1
        /\ \A i, j \in 1..Len(sink[s]) :
              i < j => \A a \in LinesOf(sink[s][i]), b \in LinesOf(sink[s][j]) : a < b
        /\ \A i \in 1..Len(sink[s]) :
              \A a \in LinesOf(sink[s][i]), b \in LinesOf(buf[s]) : a < b

\* C27 witness: two lines of one stream were forwarded, the first and then the
\* second, and the buffer is empty
C27_Witness ==
    \E s \in Streams :
        /\ Len(sink[s]) = 2
        /\ sink[s][1] = <<1>>
        /\ sink[s][2] = <<2>>
        /\ buf[s] = <<>>

\* the step is the return of the video conversion: after a first pass that
\* failed, or after the second pass, whatever its result
VideoReturns ==
    /\ pc = "returned"
    /\ caller \in {"video1", "video2"}
    /\ pc' \notin {"returned", "call"}

\* C28: whenever the video conversion returns, after a first pass that failed,
\* a second pass that failed, an interrupt, or two passes that succeeded, the
\* pass log does not exist, provided the file system refused no deletion.
C28_PassLogCleanedUp ==
    [][(VideoReturns /\ budget'.unlinks = budget.unlinks)
          => full_log_file_name(log_file) \notin DOMAIN fs']_vars

\* C28 witness: both passes succeeded, the first having written the pass log,
\* the video conversion has returned and the job is at its replace: the output
\* is there and the pass log is gone
C28_Witness ==
    /\ pc = "replace"
    /\ caller = "video2"
    /\ budget.unlinks = MaxRefused
    /\ exists(output)
    /\ ~exists(full_log_file_name(log_file))

\* the byte totals and the counters of a Statistics other than the one named
Others(st, counter) ==
    [f \in {"processed", "saved", "wasted", "shrunk", "grew", "skipped", "failed"} \ {counter}
        |-> st[f]]

\* skip() and fail() change their own counter only
CountersOnly ==
    [][\A name \in {"skip", "fail"} :
          (ret.fn = "Statistics" /\ ret' # ret /\ ret'.last = name)
             => LET counter == IF name = "skip" THEN "skipped" ELSE "failed"
                IN  /\ Others(ret'.st, counter) = Others(ret.st, counter)
                    /\ ret'.st[counter] = ret.st[counter] + 1]_vars

\* C29: after any sequence of shrink, grow, skip and fail calls, the deltas of
\* shrink not grown and those of grow grown, delta() is the sum of the
\* originals and the sum of the news, computed without underflow; skip() and
\* fail() change their own counter only.
C29_StatisticsAggregate ==
    /\ [](ret.fn = "Statistics"
             => /\ ~Panicked(ret.st)
                /\ Statistics_delta(ret.st, ret.profile) = Delta(ret.originals, ret.news))
    /\ CountersOnly

\* C29 as amended: the same, for the sequences of calls whose sums of
\* originals and of news fit the integer.
C29_StatisticsAggregateInRange ==
    /\ []((ret.fn = "Statistics" /\ ret.originals < Word /\ ret.news < Word)
             => /\ ~Panicked(ret.st)
                /\ Statistics_delta(ret.st, ret.profile) = Delta(ret.originals, ret.news))
    /\ CountersOnly

\* C29 witness: a shrink, a grow and a skip were called, the sums fit, and
\* delta() is their aggregate: one byte saved of the half range, one byte
\* wasted on an empty file
C29_Witness ==
    /\ ret.fn = "Statistics"
    /\ ret.st.shrunk = 1
    /\ ret.st.grew = 1
    /\ ret.st.skipped = 1
    /\ ret.st.saved = Word \div 2 - 1
    /\ ret.st.wasted = 1
    /\ Statistics_delta(ret.st, ret.profile) = Delta(Word \div 2, 2)
    /\ ret.originals = Word \div 2
    /\ ret.news = 2

\* the replace transaction is running
Replacing == pc \in {"replace", "replace_b", "replace_c"}

\* a job whose conversion succeeded ends without error
Succeeds ==
    /\ pc = "returned"
    /\ result.kind = "Ok"
    /\ result.status = "success"
    /\ Resolves

\* the output is discarded because it grew
Discards == no_grow /\ output # input /\ fs[output] = "larger"

\* C30: the replace transaction runs only when no output option is given;
\* with an output option a successful job leaves the input file where and
\* what it was and the output at the path the option resolves to.
C30_ReplaceOnlyInPlace ==
    /\ [](Replacing => should_replace)
    /\ [][(Succeeds /\ ~should_replace)
             => /\ input \in DOMAIN fs'
                /\ fs'[input] = "orig"
                /\ Discards \/ (output \in get(input, Suffix(for_file(input)))
                                   /\ output \in DOMAIN fs')]_vars

\* the stream is at end-of-file: the child closed it, and nothing of what it
\* wrote is left to read or to forward
AtEof(s) == s \in closed /\ pipe[s] = <<>> /\ buf[s] = <<>>

\* C31: the supervisor forwards an annotation for a stream only when it read
\* data from it: a stream at end-of-file gets no further annotation, its read
\* does not complete again with an empty line.
C31_AnnotationOnlyForData ==
    [][\A s \in Streams :
          (pc = "loop" /\ AtEof(s)) => sink'[s] = sink[s]]_vars

====
